---- MODULE Spec2Model ----
(***************************************************************************)
(* Binding resolvers of the construct library: the EventBus rule target,   *)
(* the CloudFront OriginRequestPolicy and the HTTP API HttpIntegration.    *)
(* An optional value (a TypeScript `T | undefined`) is a set with at most  *)
(* one element: {} is undefined, {x} is the value x.                       *)
(***************************************************************************)
EXTENDS Integers, Sequences, FiniteSets, TLC

VARIABLES
    targets,        \* the constructed EventBus targets: target id -> its private fields
    roles,          \* the iam.Role constructs synthesized so far, in creation order
    policy,         \* principal -> the policy statements attached to it, in order
    calls,          \* the bind calls made so far, each with the config it returned
    orpArgs,        \* what the caller writes for an OriginRequestPolicy (enum members by name)
    orpResource,    \* the CfnOriginRequestPolicy the construct created, if any
    httpArgs,       \* what the caller writes for an HttpIntegration
    sqsArgs,        \* what the caller writes for a route with an SQSSendMessageIntegration
    cfnIntegration, \* the CfnIntegration created, if any
    httpThrew       \* whether building the integration ended in an exception

vars == <<targets, roles, policy, calls, orpArgs, orpResource, httpArgs, sqsArgs,
          cfnIntegration, httpThrew>>

ebVars == <<targets, roles, policy, calls>>

orpVars == <<orpArgs, orpResource>>

httpVars == <<httpArgs, sqsArgs, cfnIntegration, httpThrew>>

\* ------------------------------------------------------------ bounds and inputs

MaxBinds == 3

MaxNames == 2

MaxIdBinds == 2

undefined == {}

Some(x) == {x}

Get(o) == CHOOSE x \in o : TRUE

TargetIds == {"t1", "t2"}

Arns == {"arn:bus/a", "arn:bus/b"}

Rules == {"RuleA", "RuleB"}

BindIds == {undefined, Some("Target0")}

\* The same, with the empty string a caller may also pass.
AllBindIds == BindIds \cup {Some("")}

\* A role the caller supplies (it exists before any bind).
ExplicitRoles == {[scope |-> "Stack", id |-> "Role"]}

\* ------------------------------------------------------------ EventBus target

EventBusProps == [eventBusArn : Arns, role : {undefined} \cup {Some(r) : r \in ExplicitRoles}]

PolicyStatement(actions, resources) == [actions |-> actions, resources |-> resources]

EventBus(props) == [eventBusArn |-> props.eventBusArn, role |-> props.role]

putEventStatement(this) == PolicyStatement({"events:PutEvents"}, {this.eventBusArn})

Statements(pol, principal) == IF principal \in DOMAIN pol THEN pol[principal] ELSE <<>>

Holds(pol, principal, stmt) ==
    \E i \in DOMAIN Statements(pol, principal) : Statements(pol, principal)[i] = stmt

\* The identity/policy primitive: attach a statement to a principal, add-if-absent.
addToPolicy(pol, principal, stmt) ==
    IF Holds(pol, principal, stmt)
    THEN pol
    ELSE [p \in DOMAIN pol \cup {principal} |->
            IF p = principal THEN Append(Statements(pol, principal), stmt) ELSE pol[p]]

RECURSIVE addAllToPolicy(_, _, _)
addAllToPolicy(pol, principal, stmts) ==
    IF stmts = <<>> THEN pol
    ELSE addAllToPolicy(addToPolicy(pol, principal, Head(stmts)), principal, Tail(stmts))

SingletonRole(scope) == [scope |-> scope, id |-> "EventsRole"]

\* The one role of a scope: found when the scope already has it, created otherwise;
\* the statements are attached to it either way.
singletonEventRole(st, scope, policyStatements) ==
    LET existing == \E i \in DOMAIN st.roles : st.roles[i] = SingletonRole(scope)
    IN  [role   |-> SingletonRole(scope),
         roles  |-> IF existing THEN st.roles ELSE Append(st.roles, SingletonRole(scope)),
         policy |-> addAllToPolicy(st.policy, SingletonRole(scope), policyStatements)]

\* bind creating a fresh role on every call instead of reusing the scope's role.
bind_NewRolePerCall(st, this, rule, id) ==
    LET stmt == putEventStatement(this)
        role == IF this.role # undefined THEN Get(this.role) ELSE SingletonRole(rule)
    IN  [roles  |-> IF this.role # undefined THEN st.roles
                    ELSE Append(st.roles, SingletonRole(rule)),
         policy |-> [p \in DOMAIN st.policy \cup {role} |->
                        IF p = role THEN Append(Statements(st.policy, role), stmt)
                        ELSE st.policy[p]],
         config |-> [id   |-> IF id # undefined /\ Get(id) # "" THEN Get(id) ELSE "",
                     arn  |-> this.eventBusArn,
                     role |-> Some(role)]]

\* bind that forgets the grant when the caller supplies the role.
bind_NoGrantOnExplicitRole(st, this, rule, id) ==
    LET single == singletonEventRole(st, rule, <<putEventStatement(this)>>)
        role == IF this.role # undefined THEN Get(this.role) ELSE single.role
    IN  [roles  |-> IF this.role # undefined THEN st.roles ELSE single.roles,
         policy |-> IF this.role # undefined THEN st.policy ELSE single.policy,
         config |-> [id   |-> IF id # undefined /\ Get(id) # "" THEN Get(id) ELSE "",
                     arn  |-> this.eventBusArn,
                     role |-> Some(role)]]

\* bind returning only the explicit role, leaving the config's role empty otherwise.
bind_ReturnsOnlyExplicitRole(st, this, rule, id) ==
    LET pol1 == IF this.role # undefined
                THEN addToPolicy(st.policy, Get(this.role), putEventStatement(this))
                ELSE st.policy
        single == singletonEventRole([roles |-> st.roles, policy |-> pol1], rule,
                                     <<putEventStatement(this)>>)
    IN  [roles  |-> IF this.role # undefined THEN st.roles ELSE single.roles,
         policy |-> IF this.role # undefined THEN pol1 ELSE single.policy,
         config |-> [id   |-> IF id # undefined /\ Get(id) # "" THEN Get(id) ELSE "",
                     arn  |-> this.eventBusArn,
                     role |-> this.role]]

\* bind returning the synthesized role only on the call that creates it.
bind_RoleOnlyWhenCreated(st, this, rule, id) ==
    LET pol1 == IF this.role # undefined
                THEN addToPolicy(st.policy, Get(this.role), putEventStatement(this))
                ELSE st.policy
        single == singletonEventRole([roles |-> st.roles, policy |-> pol1], rule,
                                     <<putEventStatement(this)>>)
    IN  [roles  |-> IF this.role # undefined THEN st.roles ELSE single.roles,
         policy |-> IF this.role # undefined THEN pol1 ELSE single.policy,
         config |-> [id   |-> IF id # undefined /\ Get(id) # "" THEN Get(id) ELSE "",
                     arn  |-> this.eventBusArn,
                     role |-> IF this.role # undefined THEN this.role
                              ELSE IF single.roles # st.roles THEN Some(single.role)
                              ELSE undefined]]

\* bind replacing the principal's policy by its own statement instead of adding to it.
bind_OverwritesPolicy(st, this, rule, id) ==
    LET stmt == putEventStatement(this)
        single == singletonEventRole(st, rule, <<>>)
        role == IF this.role # undefined THEN Get(this.role) ELSE single.role
    IN  [roles  |-> IF this.role # undefined THEN st.roles ELSE single.roles,
         policy |-> [p \in DOMAIN st.policy \cup {role} |->
                        IF p = role THEN <<stmt>> ELSE st.policy[p]],
         config |-> [id   |-> IF id # undefined /\ Get(id) # "" THEN Get(id) ELSE "",
                     arn  |-> this.eventBusArn,
                     role |-> Some(role)]]

\* bind returning an empty id whatever id it is given.
bind_IgnoresId(st, this, rule, id) ==
    LET pol1 == IF this.role # undefined
                THEN addToPolicy(st.policy, Get(this.role), putEventStatement(this))
                ELSE st.policy
        single == singletonEventRole([roles |-> st.roles, policy |-> pol1], rule,
                                     <<putEventStatement(this)>>)
        role == IF this.role # undefined THEN Get(this.role) ELSE single.role
    IN  [roles  |-> IF this.role # undefined THEN st.roles ELSE single.roles,
         policy |-> IF this.role # undefined THEN pol1 ELSE single.policy,
         config |-> [id   |-> "",
                     arn  |-> this.eventBusArn,
                     role |-> Some(role)]]

\* bind synthesizing the scope's role, and granting to it, even when a role is supplied.
bind_AlwaysSynthesizes(st, this, rule, id) ==
    LET pol1 == IF this.role # undefined
                THEN addToPolicy(st.policy, Get(this.role), putEventStatement(this))
                ELSE st.policy
        single == singletonEventRole([roles |-> st.roles, policy |-> pol1], rule,
                                     <<putEventStatement(this)>>)
        role == IF this.role # undefined THEN Get(this.role) ELSE single.role
    IN  [roles  |-> single.roles,
         policy |-> single.policy,
         config |-> [id   |-> IF id # undefined /\ Get(id) # "" THEN Get(id) ELSE "",
                     arn  |-> this.eventBusArn,
                     role |-> Some(role)]]

\* EventBus.bind: the state after the call and the RuleTargetConfig it returns.
bind(st, this, rule, id) ==
    LET pol1 == IF this.role # undefined
                THEN addToPolicy(st.policy, Get(this.role), putEventStatement(this))
                ELSE st.policy
        single == singletonEventRole([roles |-> st.roles, policy |-> pol1], rule,
                                     <<putEventStatement(this)>>)
        role == IF this.role # undefined THEN Get(this.role) ELSE single.role
    IN  [roles  |-> IF this.role # undefined THEN st.roles ELSE single.roles,
         policy |-> IF this.role # undefined THEN pol1 ELSE single.policy,
         config |-> [id   |-> IF id # undefined /\ Get(id) # "" THEN Get(id) ELSE "",
                     arn  |-> this.eventBusArn,
                     role |-> Some(role)]]

EventBusIdle ==
    /\ targets = <<>>
    /\ roles = <<>>
    /\ policy = [p \in ExplicitRoles |-> <<>>]
    /\ calls = <<>>

InitEventBus ==
    /\ targets \in [TargetIds -> {EventBus(p) : p \in EventBusProps}]
    /\ roles = <<>>
    /\ policy = [p \in ExplicitRoles |-> <<>>]
    /\ calls = <<>>

Bind(t, rule, id) ==
    /\ Len(calls) < MaxBinds
    /\ LET r == bind([roles |-> roles, policy |-> policy], targets[t], rule, id)
       IN  /\ roles' = r.roles
           /\ policy' = r.policy
           /\ calls' = Append(calls, [target |-> t, rule |-> rule, id |-> id,
                                      config |-> r.config])
    /\ UNCHANGED <<targets, orpVars, httpVars>>

\* bind called with any id a caller may pass, the empty string included.
BindWithId(t, rule, id) ==
    /\ Len(calls) < MaxIdBinds
    /\ LET r == bind([roles |-> roles, policy |-> policy], targets[t], rule, id)
       IN  /\ roles' = r.roles
           /\ policy' = r.policy
           /\ calls' = Append(calls, [target |-> t, rule |-> rule, id |-> id,
                                      config |-> r.config])
    /\ UNCHANGED <<targets, orpVars, httpVars>>

\* ------------------------------------------------------------ OriginRequestPolicy

CookiesCacheBehaviorMembers == {"NONE", "WHITELIST", "ALL"}

HeadersCacheBehaviorMembers == {"NONE", "WHITELIST", "ALL_VIEWER", "ALL_VIEWER_AND_WHITELIST_CLOUDFRONT"}

QueryStringCacheBehaviorMembers == {"NONE", "WHITELIST", "ALL"}

CookiesCacheBehaviorType(member) ==
    CASE member = "NONE" -> "none"
      [] member = "WHITELIST" -> "whitelist"
      [] member = "ALL" -> "all"

\* The enum with one member's string misspelt.
HeadersCacheBehaviorType_Misspelt(member) ==
    CASE member = "NONE" -> "none"
      [] member = "WHITELIST" -> "whitelist"
      [] member = "ALL_VIEWER" -> "allViewer"
      [] member = "ALL_VIEWER_AND_WHITELIST_CLOUDFRONT" -> "allViewerAndWhitelistCloudfront"

HeadersCacheBehaviorType(member) ==
    CASE member = "NONE" -> "none"
      [] member = "WHITELIST" -> "whitelist"
      [] member = "ALL_VIEWER" -> "allViewer"
      [] member = "ALL_VIEWER_AND_WHITELIST_CLOUDFRONT" -> "allViewerAndWhitelistCloudFront"

QueryStringCacheBehaviorType(member) ==
    CASE member = "NONE" -> "none"
      [] member = "WHITELIST" -> "whitelist"
      [] member = "ALL" -> "all"

\* The sequences over `names` of length at most n.
RECURSIVE SeqsUpTo(_, _)
SeqsUpTo(names, n) ==
    IF n = 0 THEN {<<>>}
    ELSE LET shorter == SeqsUpTo(names, n - 1)
         IN  shorter \cup {Append(q, x) : q \in shorter, x \in names}

OptionalNames(names) == {undefined} \cup {Some(q) : q \in SeqsUpTo(names, MaxNames)}

\* The caller's arguments: each behavior is the enum member the caller names.
OriginRequestPolicyArgs ==
    [name : {"OriginRequestPolicy", "DifferentOriginRequestPolicy"},
     comment : {undefined, Some("comment")},
     cookieBehavior : CookiesCacheBehaviorMembers,
     cookies : OptionalNames({"x-my-cookie", "session"}),
     headerBehavior : HeadersCacheBehaviorMembers,
     headers : OptionalNames({"x-my-header"}),
     queryStringBehavior : QueryStringCacheBehaviorMembers,
     queryStrings : OptionalNames({"myQueryString"})]

\* The OriginRequestPolicyProps object the arguments evaluate to.
OriginRequestPolicyProps(a) ==
    [name |-> a.name,
     comment |-> a.comment,
     cookiesConfig |-> [cookieBehavior |-> CookiesCacheBehaviorType(a.cookieBehavior),
                        cookies |-> a.cookies],
     headersConfig |-> [headerBehavior |-> HeadersCacheBehaviorType(a.headerBehavior),
                        headers |-> a.headers],
     queryStringsConfig |-> [queryStringBehavior |-> QueryStringCacheBehaviorType(a.queryStringBehavior),
                             queryStrings |-> a.queryStrings]]

\* The constructor losing the comment and turning a missing cookie list into an empty one.
OriginRequestPolicy_Rebuilds(props) ==
    [originRequestPolicyConfig |->
        [name |-> props.name,
         comment |-> undefined,
         cookiesConfig |-> [cookieBehavior |-> props.cookiesConfig.cookieBehavior,
                            cookies |-> IF props.cookiesConfig.cookies = undefined
                                        THEN Some(<<>>) ELSE props.cookiesConfig.cookies],
         headersConfig |-> props.headersConfig,
         queryStringsConfig |-> props.queryStringsConfig]]

\* OriginRequestPolicy's constructor: the properties given to CfnOriginRequestPolicy.
OriginRequestPolicy(props) ==
    [originRequestPolicyConfig |->
        [name |-> props.name,
         comment |-> props.comment,
         cookiesConfig |-> props.cookiesConfig,
         headersConfig |-> props.headersConfig,
         queryStringsConfig |-> props.queryStringsConfig]]

OriginRequestPolicyIdle ==
    /\ orpArgs = undefined
    /\ orpResource = undefined

InitOriginRequestPolicy ==
    /\ orpArgs \in {Some(a) : a \in OriginRequestPolicyArgs}
    /\ orpResource = undefined

NewOriginRequestPolicy ==
    /\ orpArgs # undefined
    /\ orpResource = undefined
    /\ orpResource' = Some(OriginRequestPolicy(OriginRequestPolicyProps(Get(orpArgs))))
    /\ UNCHANGED <<orpArgs, ebVars, httpVars>>

\* ------------------------------------------------------------ HttpIntegration

HttpIntegrationTypeMembers == {"LAMBDA_PROXY", "HTTP_PROXY"}

HttpConnectionTypeMembers == {"VPC_LINK", "INTERNET"}

HttpIntegrationSubtypeMembers ==
    {"EVENTBRIDGE_PUTEVENTS", "SQS_SENDMESSAGE", "SQS_RECEIVEMESSAGE", "SQS_DELETEMESSAGE"}

HttpIntegrationType(member) ==
    CASE member = "LAMBDA_PROXY" -> "AWS_PROXY"
      [] member = "HTTP_PROXY" -> "HTTP_PROXY"

HttpConnectionType(member) ==
    CASE member = "VPC_LINK" -> "VPC_LINK"
      [] member = "INTERNET" -> "INTERNET"

HttpIntegrationSubtype(member) ==
    CASE member = "EVENTBRIDGE_PUTEVENTS" -> "EventBridge-PutEvents"
      [] member = "SQS_SENDMESSAGE" -> "SQS-SendMessage"
      [] member = "SQS_RECEIVEMESSAGE" -> "SQS-ReceiveMessage"
      [] member = "SQS_DELETEMESSAGE" -> "SQS-DeleteMessage"

\* PayloadFormatVersion: the private constructor and the three ways to reach it.
PayloadFormatVersion(version) == [version |-> version]

PayloadFormatVersionOf(expr) ==
    CASE expr.ctor = "VERSION_1_0" -> PayloadFormatVersion("1.0")
      [] expr.ctor = "VERSION_2_0" -> PayloadFormatVersion("2.0")
      [] expr.ctor = "custom" -> PayloadFormatVersion(expr.arg)

PayloadFormatVersionExprs ==
    {[ctor |-> "VERSION_1_0", arg |-> ""], [ctor |-> "VERSION_2_0", arg |-> ""],
     [ctor |-> "custom", arg |-> "3.0"]}

\* IntegrationCredentials: the private constructor and its two factories.
IntegrationCredentials(credentials) == [credentials |-> credentials]

IntegrationCredentialsOf(expr) ==
    CASE expr.ctor = "fromRole" -> IntegrationCredentials(expr.roleArn)
      [] expr.ctor = "useCallerIdentity" -> IntegrationCredentials("arn:aws:iam::*:user/*")

CredentialsExprs ==
    {[ctor |-> "fromRole", roleArn |-> "arn:aws:iam::123456789012:role/sqs-role"],
     [ctor |-> "useCallerIdentity", roleArn |-> ""]}

Optional(S) == {undefined} \cup {Some(x) : x \in S}

RequestParameterSets == {[k \in {"overwrite:header.x"} |-> "y"]}

\* The caller's arguments: enum members by name, class values by the expression used.
HttpIntegrationArgs ==
    [apiId : {"api"},
     integrationType : HttpIntegrationTypeMembers,
     integrationSubtype : Optional(HttpIntegrationSubtypeMembers),
     integrationUri : Optional({"https://example.com"}),
     method : Optional({"GET"}),
     connectionId : Optional({"vpclink"}),
     connectionType : Optional(HttpConnectionTypeMembers),
     credentials : Optional(CredentialsExprs),
     payloadFormatVersion : Optional(PayloadFormatVersionExprs),
     requestParameters : Optional(RequestParameterSets)]

\* The HttpIntegrationProps object the arguments evaluate to.
HttpIntegrationProps(a) ==
    [httpApi |-> [apiId |-> a.apiId],
     integrationType |-> HttpIntegrationType(a.integrationType),
     integrationSubtype |-> {HttpIntegrationSubtype(x) : x \in a.integrationSubtype},
     integrationUri |-> a.integrationUri,
     method |-> a.method,
     connectionId |-> a.connectionId,
     connectionType |-> {HttpConnectionType(x) : x \in a.connectionType},
     credentials |-> {IntegrationCredentialsOf(x) : x \in a.credentials},
     payloadFormatVersion |-> {PayloadFormatVersionOf(x) : x \in a.payloadFormatVersion},
     requestParameters |-> a.requestParameters]

credentialsOf(c) == c.credentials

versionOf(v) == v.version

\* The constructor never passing the credentials on.
HttpIntegration_DropsCredentials(props) ==
    [threw |-> FALSE,
     resource |-> Some(
        [apiId |-> props.httpApi.apiId,
         integrationType |-> props.integrationType,
         integrationSubtype |-> props.integrationSubtype,
         integrationUri |-> props.integrationUri,
         integrationMethod |-> props.method,
         connectionId |-> props.connectionId,
         connectionType |-> props.connectionType,
         credentialsArn |-> undefined,
         payloadFormatVersion |-> {versionOf(x) : x \in props.payloadFormatVersion},
         requestParameters |-> props.requestParameters])]

\* The constructor filling in the latest payload format version when none is given.
HttpIntegration_DefaultsPayloadVersion(props) ==
    [threw |-> FALSE,
     resource |-> Some(
        [apiId |-> props.httpApi.apiId,
         integrationType |-> props.integrationType,
         integrationSubtype |-> props.integrationSubtype,
         integrationUri |-> props.integrationUri,
         integrationMethod |-> props.method,
         connectionId |-> props.connectionId,
         connectionType |-> props.connectionType,
         credentialsArn |-> {credentialsOf(x) : x \in props.credentials},
         payloadFormatVersion |-> IF props.payloadFormatVersion = undefined
                                  THEN Some("2.0")
                                  ELSE {versionOf(x) : x \in props.payloadFormatVersion},
         requestParameters |-> props.requestParameters])]

\* HttpIntegration's constructor: it returns normally, having created a CfnIntegration
\* with these properties.
HttpIntegration(props) ==
    [threw |-> FALSE,
     resource |-> Some(
        [apiId |-> props.httpApi.apiId,
         integrationType |-> props.integrationType,
         integrationSubtype |-> props.integrationSubtype,
         integrationUri |-> props.integrationUri,
         integrationMethod |-> props.method,
         connectionId |-> props.connectionId,
         connectionType |-> props.connectionType,
         credentialsArn |-> {credentialsOf(x) : x \in props.credentials},
         payloadFormatVersion |-> {versionOf(x) : x \in props.payloadFormatVersion},
         requestParameters |-> props.requestParameters])]

\* ------------------------------------------------------------ SQS route integration

Durations == {[amount |-> 4, unit |-> "seconds"], [amount |-> 1, unit |-> "minutes"]}

toSeconds(d) == IF d.unit = "minutes" THEN d.amount * 60 ELSE d.amount

SQSSendMessageIntegrationArgs ==
    [queueUrl : {"https://sqs.eu-west-2.amazonaws.com/123456789012/queue"},
     body : {"message", "message-body"},
     delay : Optional(Durations),
     attributes : Optional({"some-attributes"}),
     deduplicationId : Optional({"$request.id"}),
     groupId : Optional({"the-group"}),
     region : Optional({"us-east-1"}),
     systemAttributes : Optional({"system-attrs"}),
     credentials : Optional(CredentialsExprs)]

\* The request parameter each optional property is sent as.
SqsOptionalParameters ==
    {<<"delay", "DelaySeconds">>, <<"attributes", "MessageAttributes">>,
     <<"deduplicationId", "MessageDeduplicationId">>, <<"groupId", "MessageGroupId">>,
     <<"region", "Region">>, <<"systemAttributes", "MessageSystemAttributes">>}

SqsRequestParameters(p) ==
    [k \in {"QueueUrl", "MessageBody"} \cup
           {pair[2] : pair \in {q \in SqsOptionalParameters : p[q[1]] # undefined}} |->
        CASE k = "QueueUrl" -> p.queueUrl
          [] k = "MessageBody" -> p.body
          [] k = "DelaySeconds" -> toSeconds(Get(p.delay))
          [] k = "MessageAttributes" -> Get(p.attributes)
          [] k = "MessageDeduplicationId" -> Get(p.deduplicationId)
          [] k = "MessageGroupId" -> Get(p.groupId)
          [] k = "Region" -> Get(p.region)
          [] k = "MessageSystemAttributes" -> Get(p.systemAttributes)]

\* SQSSendMessageIntegration.bind: the HttpRouteIntegrationConfig of the route.
SQSSendMessageIntegration_bind(p) ==
    [type |-> HttpIntegrationType("LAMBDA_PROXY"),
     subtype |-> Some(HttpIntegrationSubtype("SQS_SENDMESSAGE")),
     uri |-> undefined,
     method |-> undefined,
     connectionId |-> undefined,
     connectionType |-> undefined,
     credentials |-> {IntegrationCredentialsOf(x) : x \in p.credentials},
     payloadFormatVersion |-> PayloadFormatVersionOf([ctor |-> "VERSION_1_0", arg |-> ""]),
     requestParameters |-> Some(SqsRequestParameters(p))]

\* HttpRoute: the HttpIntegrationProps it builds from the config its integration returns.
HttpRoute_integrationProps(apiId, config) ==
    [httpApi |-> [apiId |-> apiId],
     integrationType |-> config.type,
     integrationSubtype |-> config.subtype,
     integrationUri |-> config.uri,
     method |-> config.method,
     connectionId |-> config.connectionId,
     connectionType |-> config.connectionType,
     credentials |-> config.credentials,
     payloadFormatVersion |-> Some(config.payloadFormatVersion),
     requestParameters |-> config.requestParameters]

HttpIdle ==
    /\ httpArgs = undefined
    /\ sqsArgs = undefined
    /\ cfnIntegration = undefined
    /\ httpThrew = FALSE

InitHttpIntegration ==
    /\ httpArgs \in {Some(a) : a \in HttpIntegrationArgs}
    /\ sqsArgs = undefined
    /\ cfnIntegration = undefined
    /\ httpThrew = FALSE

InitHttpRoute ==
    /\ httpArgs = undefined
    /\ sqsArgs \in {Some(a) : a \in SQSSendMessageIntegrationArgs}
    /\ cfnIntegration = undefined
    /\ httpThrew = FALSE

Built == cfnIntegration # undefined \/ httpThrew

NewHttpIntegration ==
    /\ httpArgs # undefined
    /\ ~Built
    /\ LET r == HttpIntegration(HttpIntegrationProps(Get(httpArgs)))
       IN  /\ cfnIntegration' = r.resource
           /\ httpThrew' = r.threw
    /\ UNCHANGED <<httpArgs, sqsArgs, ebVars, orpVars>>

NewHttpRoute ==
    /\ sqsArgs # undefined
    /\ ~Built
    /\ LET r == HttpIntegration(HttpRoute_integrationProps("api",
                                    SQSSendMessageIntegration_bind(Get(sqsArgs))))
       IN  /\ cfnIntegration' = r.resource
           /\ httpThrew' = r.threw
    /\ UNCHANGED <<httpArgs, sqsArgs, ebVars, orpVars>>

\* ------------------------------------------------------------ specification

\* A synthesis pass uses one family of resolvers; the families share no state.
Init ==
    \/ InitEventBus /\ OriginRequestPolicyIdle /\ HttpIdle
    \/ EventBusIdle /\ InitOriginRequestPolicy /\ HttpIdle
    \/ EventBusIdle /\ OriginRequestPolicyIdle /\ InitHttpIntegration
    \/ EventBusIdle /\ OriginRequestPolicyIdle /\ InitHttpRoute

Next ==
    \/ \E t \in DOMAIN targets, rule \in Rules, id \in BindIds : Bind(t, rule, id)
    \/ NewOriginRequestPolicy
    \/ NewHttpIntegration
    \/ NewHttpRoute

Spec == Init /\ [][Next]_vars

\* The EventBus target alone, bound with every kind of id.
InitBindIds == InitEventBus /\ OriginRequestPolicyIdle /\ HttpIdle

NextBindIds == \E t \in DOMAIN targets, rule \in Rules, id \in AllBindIds : BindWithId(t, rule, id)

SpecBindIds == InitBindIds /\ [][NextBindIds]_vars

\* ------------------------------------------------------------ EventBus claims

Range(seq) == {seq[i] : i \in DOMAIN seq}

Count(seq, x) == Cardinality({i \in DOMAIN seq : seq[i] = x})

NumBinds(t, rule) == Cardinality({i \in DOMAIN calls : calls[i].target = t /\ calls[i].rule = rule})

\* Every statement of the table, as <<principal, position>>.
AllStatements == UNION {{<<p, i>> : i \in DOMAIN policy[p]} : p \in DOMAIN policy}

\* C1: a target without a role bound two or more times against the same rule leaves
\* exactly one synthesized role in that rule's scope, holding exactly one
\* events:PutEvents statement for the target's event bus ARN.
C1_OneRoleOneStatement ==
    \A t \in DOMAIN targets, rule \in Rules :
        (targets[t].role = undefined /\ NumBinds(t, rule) >= 2) =>
            /\ Cardinality({i \in DOMAIN roles : roles[i].scope = rule}) = 1
            /\ Count(Statements(policy, SingletonRole(rule)),
                     PolicyStatement({"events:PutEvents"}, {targets[t].eventBusArn})) = 1

C1_Witness ==
    \E t \in DOMAIN targets, rule \in Rules :
        /\ targets[t].role = undefined
        /\ NumBinds(t, rule) >= 2
        /\ SingletonRole(rule) \in Range(roles)

\* C2: a target with an explicit role, bound any number of times, leaves that role
\* holding the target's PutEvents statement exactly once.
C2_ExplicitRoleGrantOnce ==
    \A t \in DOMAIN targets :
        (targets[t].role # undefined /\ \E rule \in Rules : NumBinds(t, rule) >= 1) =>
            Count(Statements(policy, Get(targets[t].role)),
                  PolicyStatement({"events:PutEvents"}, {targets[t].eventBusArn})) = 1

C2_Witness ==
    \E t \in DOMAIN targets :
        /\ targets[t].role # undefined
        /\ Cardinality({i \in DOMAIN calls : calls[i].target = t}) >= 2
        /\ Holds(policy, Get(targets[t].role), putEventStatement(targets[t]))

\* C4 as stated: the first bind of a target without a role returns a config whose
\* role is empty and leaves exactly one statement in the table.
C4_Original ==
    (Len(calls) = 1 /\ targets[calls[1].target].role = undefined) =>
        /\ calls[1].config.role = undefined
        /\ AllStatements = {<<SingletonRole(calls[1].rule), 1>>}

\* C4 (amended): the first bind of a target given only eventBusArn returns a config
\* whose role is the synthesized role of the rule's scope, and the table then holds
\* exactly one statement: actions {events:PutEvents}, resources {that eventBusArn}.
C4_SingletonRoleReturned ==
    (Len(calls) = 1 /\ targets[calls[1].target].role = undefined) =>
        /\ calls[1].config.role = Some(SingletonRole(calls[1].rule))
        /\ Range(roles) = {SingletonRole(calls[1].rule)}
        /\ AllStatements = {<<SingletonRole(calls[1].rule), 1>>}
        /\ policy[SingletonRole(calls[1].rule)][1].actions = {"events:PutEvents"}
        /\ policy[SingletonRole(calls[1].rule)][1].resources
              = {targets[calls[1].target].eventBusArn}

C4_Witness ==
    /\ Len(calls) = 1
    /\ targets[calls[1].target].role = undefined
    /\ calls[1].config.role # undefined

InitialTable == [roles |-> <<>>, policy |-> [p \in ExplicitRoles |-> <<>>], configs |-> <<>>]

\* One more bind call c on the table st, its config appended to those returned so far.
ReplayStep(st, c, r) ==
    [roles |-> r.roles, policy |-> r.policy, configs |-> Append(st.configs, r.config)]

RECURSIVE ReplayFrom(_, _, _, _)
ReplayFrom(st, cs, order, k) ==
    IF k > Len(order) THEN st
    ELSE ReplayFrom(ReplayStep(st, cs[order[k]],
                               bind(st, targets[cs[order[k]].target],
                                    cs[order[k]].rule, cs[order[k]].id)),
                    cs, order, k + 1)

\* The bind calls cs[order[1]], cs[order[2]], ... made in that order on a fresh table.
Replay(cs, order) == ReplayFrom(InitialTable, cs, order, 1)

TableAsSets(rs, pol) == [principals |-> Range(rs) \cup DOMAIN pol,
                         statements |-> [p \in DOMAIN pol |-> Range(pol[p])]]

Orders(n) == Permutations(1..n)

\* C8: made in any other order, the same bind calls return the same configs and
\* leave the same principals with the same set of statements on each.
C8_OrderIndependent ==
    \A order \in Orders(Len(calls)) :
        LET r == Replay(calls, order)
        IN  /\ \A k \in DOMAIN order : r.configs[k] = calls[order[k]].config
            /\ TableAsSets(r.roles, r.policy) = TableAsSets(roles, policy)

C8_Witness ==
    \E i, j \in DOMAIN calls :
        /\ i < j
        /\ calls[i].config.role = calls[j].config.role
        /\ calls[i].config.arn # calls[j].config.arn
        /\ \E k \in DOMAIN calls : calls[k].config.role # calls[i].config.role

\* ------------------------------------------------------------ resolver claims

\* C3 as stated: an HttpIntegration built from properties with neither a subtype nor
\* a URI ends in an error and creates no CfnIntegration.
C3_MissingSubtypeAndUriFails ==
    (/\ httpArgs # undefined
     /\ Built
     /\ Get(httpArgs).integrationSubtype = undefined
     /\ Get(httpArgs).integrationUri = undefined) =>
        (httpThrew /\ cfnIntegration = undefined)

\* The wire string the documentation gives for each member of each enum.
Documented ==
    [CookiesCacheBehaviorType |-> [NONE |-> "none", WHITELIST |-> "whitelist", ALL |-> "all"],
     HeadersCacheBehaviorType |->
        [NONE |-> "none", WHITELIST |-> "whitelist", ALL_VIEWER |-> "allViewer",
         ALL_VIEWER_AND_WHITELIST_CLOUDFRONT |-> "allViewerAndWhitelistCloudFront"],
     QueryStringCacheBehaviorType |-> [NONE |-> "none", WHITELIST |-> "whitelist", ALL |-> "all"],
     HttpIntegrationType |-> [LAMBDA_PROXY |-> "AWS_PROXY", HTTP_PROXY |-> "HTTP_PROXY"],
     HttpConnectionType |-> [VPC_LINK |-> "VPC_LINK", INTERNET |-> "INTERNET"],
     HttpIntegrationSubtype |->
        [EVENTBRIDGE_PUTEVENTS |-> "EventBridge-PutEvents", SQS_SENDMESSAGE |-> "SQS-SendMessage",
         SQS_RECEIVEMESSAGE |-> "SQS-ReceiveMessage", SQS_DELETEMESSAGE |-> "SQS-DeleteMessage"]]

DocumentedOptional(table, o) == IF o = undefined THEN undefined ELSE Some(table[Get(o)])

\* C5: every enum member has its documented wire string, no two members of an enum
\* share one, and the string emitted for a field is that of the member supplied.
C5_EnumWireStrings ==
    /\ \A m \in CookiesCacheBehaviorMembers :
            CookiesCacheBehaviorType(m) = Documented.CookiesCacheBehaviorType[m]
    /\ \A m \in HeadersCacheBehaviorMembers :
            HeadersCacheBehaviorType(m) = Documented.HeadersCacheBehaviorType[m]
    /\ \A m \in QueryStringCacheBehaviorMembers :
            QueryStringCacheBehaviorType(m) = Documented.QueryStringCacheBehaviorType[m]
    /\ \A m \in HttpIntegrationTypeMembers :
            HttpIntegrationType(m) = Documented.HttpIntegrationType[m]
    /\ \A m \in HttpConnectionTypeMembers :
            HttpConnectionType(m) = Documented.HttpConnectionType[m]
    /\ \A m \in HttpIntegrationSubtypeMembers :
            HttpIntegrationSubtype(m) = Documented.HttpIntegrationSubtype[m]
    /\ \A a, b \in CookiesCacheBehaviorMembers :
            CookiesCacheBehaviorType(a) = CookiesCacheBehaviorType(b) => a = b
    /\ \A a, b \in HeadersCacheBehaviorMembers :
            HeadersCacheBehaviorType(a) = HeadersCacheBehaviorType(b) => a = b
    /\ \A a, b \in QueryStringCacheBehaviorMembers :
            QueryStringCacheBehaviorType(a) = QueryStringCacheBehaviorType(b) => a = b
    /\ \A a, b \in HttpIntegrationTypeMembers :
            HttpIntegrationType(a) = HttpIntegrationType(b) => a = b
    /\ \A a, b \in HttpConnectionTypeMembers :
            HttpConnectionType(a) = HttpConnectionType(b) => a = b
    /\ \A a, b \in HttpIntegrationSubtypeMembers :
            HttpIntegrationSubtype(a) = HttpIntegrationSubtype(b) => a = b
    /\ (orpArgs # undefined /\ orpResource # undefined) =>
          LET a == Get(orpArgs)
              c == Get(orpResource).originRequestPolicyConfig
          IN  /\ c.cookiesConfig.cookieBehavior
                    = Documented.CookiesCacheBehaviorType[a.cookieBehavior]
              /\ c.headersConfig.headerBehavior
                    = Documented.HeadersCacheBehaviorType[a.headerBehavior]
              /\ c.queryStringsConfig.queryStringBehavior
                    = Documented.QueryStringCacheBehaviorType[a.queryStringBehavior]
    /\ (httpArgs # undefined /\ cfnIntegration # undefined) =>
          LET a == Get(httpArgs)
              c == Get(cfnIntegration)
          IN  /\ c.integrationType = Documented.HttpIntegrationType[a.integrationType]
              /\ c.integrationSubtype
                    = DocumentedOptional(Documented.HttpIntegrationSubtype, a.integrationSubtype)
              /\ c.connectionType
                    = DocumentedOptional(Documented.HttpConnectionType, a.connectionType)

C5_Witness ==
    /\ orpArgs # undefined
    /\ orpResource # undefined
    /\ Get(orpArgs).cookieBehavior = "ALL"
    /\ Get(orpArgs).headerBehavior = "ALL_VIEWER_AND_WHITELIST_CLOUDFRONT"
    /\ Get(orpArgs).queryStringBehavior = "NONE"
    /\ Get(orpResource).originRequestPolicyConfig.headersConfig.headerBehavior
          = "allViewerAndWhitelistCloudFront"

\* C6: the OriginRequestPolicyConfig carries name, cookiesConfig, headersConfig and
\* queryStringsConfig as supplied (behavior string and names, in order, nothing
\* added), comment only when supplied, and no name list that was not supplied;
\* cookie behavior 'whitelist' with ['x-my-cookie'] yields exactly that.
C6_ConfigAsSupplied ==
    (orpArgs # undefined /\ orpResource # undefined) =>
        LET a == Get(orpArgs)
            c == Get(orpResource).originRequestPolicyConfig
        IN  /\ DOMAIN Get(orpResource) = {"originRequestPolicyConfig"}
            /\ DOMAIN c = {"name", "comment", "cookiesConfig", "headersConfig",
                           "queryStringsConfig"}
            /\ c.name = a.name
            /\ c.comment = a.comment
            /\ DOMAIN c.cookiesConfig = {"cookieBehavior", "cookies"}
            /\ c.cookiesConfig.cookieBehavior = CookiesCacheBehaviorType(a.cookieBehavior)
            /\ c.cookiesConfig.cookies = a.cookies
            /\ DOMAIN c.headersConfig = {"headerBehavior", "headers"}
            /\ c.headersConfig.headerBehavior = HeadersCacheBehaviorType(a.headerBehavior)
            /\ c.headersConfig.headers = a.headers
            /\ DOMAIN c.queryStringsConfig = {"queryStringBehavior", "queryStrings"}
            /\ c.queryStringsConfig.queryStringBehavior
                  = QueryStringCacheBehaviorType(a.queryStringBehavior)
            /\ c.queryStringsConfig.queryStrings = a.queryStrings
            /\ (a.cookieBehavior = "WHITELIST" /\ a.cookies = Some(<<"x-my-cookie">>)) =>
                  c.cookiesConfig = [cookieBehavior |-> "whitelist",
                                     cookies |-> Some(<<"x-my-cookie">>)]

C6_Witness ==
    /\ orpArgs # undefined
    /\ orpResource # undefined
    /\ Get(orpArgs).comment = undefined
    /\ Get(orpArgs).cookieBehavior = "WHITELIST"
    /\ Get(orpArgs).cookies = Some(<<"x-my-cookie", "session">>)
    /\ Get(orpArgs).headers = undefined
    /\ Get(orpResource).originRequestPolicyConfig.cookiesConfig.cookies
          = Some(<<"x-my-cookie", "session">>)

\* C9 as stated: an absent connectionType is emitted as 'INTERNET' in the CfnIntegration.
C9_ConnectionTypeDefaultsToInternet ==
    (/\ httpArgs # undefined
     /\ cfnIntegration # undefined
     /\ Get(httpArgs).connectionType = undefined) =>
        Get(cfnIntegration).connectionType = Some("INTERNET")

SuppliedKeys(a) ==
    {"QueueUrl", "MessageBody"}
    \cup (IF a.delay # undefined THEN {"DelaySeconds"} ELSE {})
    \cup (IF a.attributes # undefined THEN {"MessageAttributes"} ELSE {})
    \cup (IF a.deduplicationId # undefined THEN {"MessageDeduplicationId"} ELSE {})
    \cup (IF a.groupId # undefined THEN {"MessageGroupId"} ELSE {})
    \cup (IF a.region # undefined THEN {"Region"} ELSE {})
    \cup (IF a.systemAttributes # undefined THEN {"MessageSystemAttributes"} ELSE {})

C11_ConfigFields ==
    \A i \in DOMAIN calls :
        LET c == calls[i]
            this == targets[c.target]
        IN  /\ c.config.arn = this.eventBusArn
            /\ c.config.arn \in Arns
            /\ c.id = Some("Target0") => c.config.id = "Target0"
            /\ c.id \in {undefined, Some("")} => c.config.id = ""
            /\ this.role # undefined => c.config.role = this.role

C11_Witness ==
    \E i, j \in DOMAIN calls :
        /\ calls[i].id = Some("")
        /\ calls[i].config.id = ""
        /\ calls[j].id = Some("Target0")
        /\ calls[j].config.id = "Target0"
        /\ targets[calls[j].target].role # undefined
        /\ calls[j].config.role = targets[calls[j].target].role

IsPrefix(a, b) == Len(a) <= Len(b) /\ SubSeq(b, 1, Len(a)) = a

\* The principal a bind call on target `this` under `rule` grants to.
BoundPrincipal(this, rule) ==
    IF this.role # undefined THEN Get(this.role) ELSE SingletonRole(rule)

\* What a bind step leaves alone in the policies and the targets: no statement is
\* removed or altered, every statement added goes to the bound principal with
\* action events:PutEvents and resource the target's eventBusArn, and the target's
\* fields and everything outside the EventBus table are unchanged.
BindFrame ==
    LET c == calls'[Len(calls')]
        this == targets[c.target]
    IN  /\ targets' = targets
        /\ \A p \in DOMAIN policy :
              p \in DOMAIN policy' /\ IsPrefix(policy[p], policy'[p])
        /\ \A p \in DOMAIN policy' : \A i \in DOMAIN policy'[p] :
              i > Len(Statements(policy, p)) =>
                 /\ p = BoundPrincipal(this, c.rule)
                 /\ policy'[p][i] = PolicyStatement({"events:PutEvents"}, {this.eventBusArn})
        /\ UNCHANGED <<orpVars, httpVars>>

\* C12 as stated: adding statements to the bound principal is the only change a
\* bind call makes outside the config it returns.
C12_Original == [][calls' # calls => (BindFrame /\ roles' = roles)]_vars

\* C12 (amended): a bind call changes nothing outside the config it returns except
\* that it adds statements to the bound principal and, for a target without a role
\* whose rule has no singleton role yet, creates that singleton role.
C12_BindFrame ==
    [][calls' # calls =>
          LET c == calls'[Len(calls')]
              this == targets[c.target]
          IN  /\ BindFrame
              /\ \/ roles' = roles
                 \/ /\ this.role = undefined
                    /\ SingletonRole(c.rule) \notin Range(roles)
                    /\ roles' = Append(roles, SingletonRole(c.rule))]_vars

C12_Witness ==
    \E i, j \in DOMAIN calls :
        /\ i < j
        /\ targets[calls[i].target].role = undefined
        /\ targets[calls[j].target].role # undefined
        /\ roles = <<SingletonRole(calls[i].rule)>>
        /\ Len(policy[SingletonRole(calls[i].rule)]) = 1
        /\ Len(policy[Get(targets[calls[j].target].role)]) = 1

\* Version strings a caller may hand to PayloadFormatVersion.custom.
SampleVersions == {"", "1.0", "3.0", "2021-05"}

====
